---- MODULE Spec2Model ----
(***************************************************************************)
(* Model of the wexler synchronisation engine: content generation per      *)
(* tool, extraction of the owned content of an existing file, conflict     *)
(* detection, and the apply loop of the command line (runApply) that       *)
(* prompts for a resolution and writes the files.                          *)
(*                                                                         *)
(* A text is the sequence of its lines (what strings.Split(s, "\n")        *)
(* returns), so the empty string is the one-line text <<Blank>>.  A line   *)
(* is a record: k is the kind of line, t its text, s a scope annotation.   *)
(***************************************************************************)
EXTENDS Integers, Sequences, FiniteSets, TLC

\* ------------------------------------------------------------------ bounds
MaxRuns == 2
MaxSubagents == 1
MaxFailRuns == 1
MaxLines == 3

\* ------------------------------------------------------------------- lines
B(t) == [k |-> "body", t |-> t, s |-> ""]
H(t) == [k |-> "h1", t |-> t, s |-> ""]
HSuffix(t, scope) == [k |-> "h1suffix", t |-> t, s |-> scope]
HWrap(scope) == [k |-> "h1wrap", t |-> "", s |-> scope]
SourceComment(scope) == [k |-> "src", t |-> "", s |-> scope]
FrontMatter(desc) == [k |-> "fm", t |-> desc, s |-> ""]
Json(name, def) == [k |-> "json", t |-> name, s |-> def]
Blank == B("")
Empty == <<Blank>>
\* a line of text that starts with white space ("  " + t)
Indented(t) == [k |-> "body", t |-> t, s |-> "indent"]

\* strings.HasPrefix(line, "# ")
IsH1(line) == line.k \in {"h1", "h1suffix", "h1wrap"}

\* strings.EqualFold(name, "WEXLER") for the names of this model
EqualFoldWexler(line) == line.k = "h1" /\ line.t \in {"WEXLER", "wexler"}

\* the exact map key "WEXLER" of the section map
WexlerKey == H("WEXLER")

RECURSIVE DropLeadingBlank(_)
DropLeadingBlank(c) ==
  IF c = <<>> THEN <<>>
  ELSE IF Head(c) = Blank THEN DropLeadingBlank(Tail(c)) ELSE c

RECURSIVE DropTrailingBlank(_)
DropTrailingBlank(c) ==
  IF c = <<>> THEN <<>>
  ELSE IF c[Len(c)] = Blank THEN DropTrailingBlank(SubSeq(c, 1, Len(c) - 1)) ELSE c

\* a list of lines joined by "\n": no line at all is the empty string
JoinLines(ls) == IF ls = <<>> THEN Empty ELSE ls

\* strings.TrimLeft(line, " \t") of one line
TrimLeft(line) == IF line.k = "body" /\ line.s = "indent" THEN B(line.t) ELSE line

\* strings.TrimSpace of a text: the blank lines at both ends go, and so does
\* the white space in front of the first line that is left
TrimSpace(c) ==
  LET d == DropTrailingBlank(DropLeadingBlank(c)) IN
  IF d = <<>> THEN Empty ELSE <<TrimLeft(d[1])>> \o Tail(d)

\* strings.TrimRight(s, "\n\t ")
TrimRight(c) == JoinLines(DropTrailingBlank(c))

\* strings.Join(parts, "\n\n")
RECURSIVE JoinParts(_)
JoinParts(parts) ==
  IF parts = <<>> THEN Empty
  ELSE IF Len(parts) = 1 THEN parts[1]
  ELSE parts[1] \o <<Blank>> \o JoinParts(Tail(parts))

\* ------------------------------------------------------- content extractor
\* The loop of extractWexlerSection over lines[i..]: st.inw is
\* inWexlerSection, st.found is foundWexler, st.acc is wexlerContent.
RECURSIVE WexlerScan(_, _, _)
WexlerScan(lines, i, st) ==
  IF i > Len(lines) THEN st
  ELSE LET line == lines[i] IN
    IF IsH1(line)
    THEN IF EqualFoldWexler(line)
         THEN WexlerScan(lines, i + 1, [st EXCEPT !.inw = TRUE, !.found = TRUE])
         ELSE IF st.inw THEN st
              ELSE WexlerScan(lines, i + 1, st)
    ELSE IF st.inw
         THEN WexlerScan(lines, i + 1, [st EXCEPT !.acc = Append(@, line)])
         ELSE WexlerScan(lines, i + 1, st)

\* the value that stands for an error returned in place of a text
ExtractFailure == <<[k |-> "error", t |-> "", s |-> ""]>>

\* variant: a file without the marker heading is refused
extractWexlerSectionStrict(content) ==
  IF content = Empty THEN Empty
  ELSE LET st == WexlerScan(content, 1, [inw |-> FALSE, found |-> FALSE, acc |-> <<>>])
       IN IF ~st.found THEN ExtractFailure ELSE TrimRight(JoinLines(st.acc))

extractWexlerSection(content) ==
  IF content = Empty THEN Empty
  ELSE LET st == WexlerScan(content, 1, [inw |-> FALSE, found |-> FALSE, acc |-> <<>>])
       IN IF ~st.found THEN Empty ELSE TrimRight(JoinLines(st.acc))


\* ------------------------------------------------------------------- paths
Tools == {"claude", "cursor"}
SubNames == 1..MaxSubagents
SubagentName(n) == IF n = 1 THEN "reviewer" ELSE IF n = 2 THEN "planner" ELSE "general"
ServerName(i) == IF i = 1 THEN "a" ELSE IF i = 2 THEN "b" ELSE "c"
NoFile == <<>>

MemoryPath(tool) == [tool |-> tool, type |-> "memory", name |-> 0]
\* .claude/agents/<name>.mindful.md and .cursor/rules/<name>.mindful.mdc; the
\* latter is the path of the cursor memory file when the name is "general"
SubagentPath(tool, n) ==
  IF tool = "cursor" /\ SubagentName(n) = "general"
  THEN MemoryPath(tool)
  ELSE [tool |-> tool, type |-> "subagent", name |-> n]
McpPath(tool) == [tool |-> tool, type |-> "mcp", name |-> 0]
\* a file of the user in the directory the tool's subagent files go to
UserPath(tool) == [tool |-> tool, type |-> "user", name |-> 0]

ToolPaths(tool) ==
  {MemoryPath(tool), McpPath(tool), UserPath(tool)}
    \cup {SubagentPath(tool, n) : n \in SubNames}
Paths == UNION {ToolPaths(tool) : tool \in Tools}

\* os.Stat(path) succeeds
fileExists(f, path) == f[path] # NoFile

ExtractExistingContent(f, path) ==
  IF ~fileExists(f, path) THEN Empty
  ELSE IF path.tool = "claude" /\ path.type = "memory"
       THEN extractWexlerSection(f[path])
       ELSE f[path]

\* ---------------------------------------------------------- header rule
hasLevelOneHeaders(content) ==
  \E i \in 1..Len(content) : IsH1(content[i]) /\ content[i].t # ""

RECURSIVE addSuffixFrom(_, _, _)
addSuffixFrom(lines, i, scope) ==
  IF i > Len(lines) THEN <<>>
  ELSE IF IsH1(lines[i]) /\ lines[i].t # ""
       THEN <<HSuffix(lines[i].t, scope), SourceComment(scope)>>
            \o (IF i + 1 <= Len(lines) /\ lines[i + 1] # Blank THEN <<Blank>> ELSE <<>>)
            \o addSuffixFrom(lines, i + 1, scope)
       ELSE <<lines[i]>> \o addSuffixFrom(lines, i + 1, scope)

addSuffixToH1Headers(content, scope) == addSuffixFrom(content, 1, scope)

ProcessMemoryContent(content, scope) ==
  LET c == TrimSpace(content) IN
  IF c = Empty THEN Empty
  ELSE IF ~hasLevelOneHeaders(c)
       THEN <<HWrap(scope), SourceComment(scope), Blank>> \o c
       ELSE addSuffixToH1Headers(c, scope)

\* variant: the project scope is put in front of the team scope
MemoryPartsProjectFirst(memory) ==
  (IF memory.HasProject /\ TrimSpace(memory.ProjectContent) # Empty
   THEN <<ProcessMemoryContent(memory.ProjectContent, "project")>> ELSE <<>>)
  \o
  (IF memory.HasTeam /\ TrimSpace(memory.TeamContent) # Empty
   THEN <<ProcessMemoryContent(memory.TeamContent, "team")>> ELSE <<>>)

\* the parts list shared by the two memory generators
MemoryParts(memory) ==
  (IF memory.HasTeam /\ TrimSpace(memory.TeamContent) # Empty
   THEN <<ProcessMemoryContent(memory.TeamContent, "team")>> ELSE <<>>)
  \o
  (IF memory.HasProject /\ TrimSpace(memory.ProjectContent) # Empty
   THEN <<ProcessMemoryContent(memory.ProjectContent, "project")>> ELSE <<>>)

GenerateClaudeMemoryContent(memory) == JoinParts(MemoryParts(memory))

GenerateCursorMemoryContent(memory) ==
  LET content == JoinParts(MemoryParts(memory)) IN
  IF content = Empty THEN Empty
  ELSE <<FrontMatter("General Memories"), Blank>> \o content

RECURSIVE FirstTitle(_, _, _)
FirstTitle(content, i, fallbackName) ==
  IF i > Len(content) THEN fallbackName
  ELSE IF IsH1(content[i]) /\ content[i].t # "" THEN content[i].t
       ELSE FirstTitle(content, i + 1, fallbackName)

extractDescriptionFromContent(content, fallbackName) ==
  IF TrimSpace(content) = Empty THEN fallbackName
  ELSE FirstTitle(content, 1, fallbackName)

generateCursorSubagentContent(content, description) ==
  <<FrontMatter(description), Blank>> \o TrimSpace(content)

\* json.MarshalIndent of the server map: keys in ascending order
RECURSIVE ToMCPJSON(_)
ToMCPJSON(servers) ==
  IF DOMAIN servers = {} THEN <<>>
  ELSE LET m == CHOOSE x \in DOMAIN servers : \A y \in DOMAIN servers : x <= y
       IN <<Json(ServerName(m), servers[m])>>
          \o ToMCPJSON([x \in DOMAIN servers \ {m} |-> servers[x]])

ConfigFile(path, content) == [Path |-> path, Content |-> content, Type |-> path.type]

RECURSIVE SubagentFiles(_, _, _)
SubagentFiles(tool, subs, order) ==
  IF order = <<>> THEN <<>>
  ELSE LET n == Head(order) IN
    <<[ConfigFile(SubagentPath(tool, n),
         IF tool = "claude" THEN subs[n]
         ELSE generateCursorSubagentContent(subs[n],
                extractDescriptionFromContent(subs[n], SubagentName(n))))
        EXCEPT !.Type = "subagent"]>>
    \o SubagentFiles(tool, subs, Tail(order))

\* variant: the memory file is generated whatever the memory content is
GenerateWithEmptyMemory(tool, source, order) ==
  LET mem == IF tool = "claude" THEN GenerateClaudeMemoryContent(source.Memory)
             ELSE GenerateCursorMemoryContent(source.Memory)
  IN <<ConfigFile(MemoryPath(tool), mem)>>
     \o SubagentFiles(tool, source.Subagents, order)
     \o (IF DOMAIN source.MCP # {}
         THEN <<ConfigFile(McpPath(tool), ToMCPJSON(source.MCP))>> ELSE <<>>)

\* Adapter.Generate of the claude and the cursor adapter; order is the order
\* in which convertToToolConfig's range over the subagent map delivered them
Generate(tool, source, order) ==
  LET mem == IF tool = "claude" THEN GenerateClaudeMemoryContent(source.Memory)
             ELSE GenerateCursorMemoryContent(source.Memory)
  IN (IF mem # Empty THEN <<ConfigFile(MemoryPath(tool), mem)>> ELSE <<>>)
     \o SubagentFiles(tool, source.Subagents, order)
     \o (IF DOMAIN source.MCP # {}
         THEN <<ConfigFile(McpPath(tool), ToMCPJSON(source.MCP))>> ELSE <<>>)

\* the orders a range over a Go map can deliver the keys in
Orders(S) == {o \in [1..Cardinality(S) -> S] : \A i, j \in DOMAIN o : i # j => o[i] # o[j]}


\* ------------------------------------------------------------ merge engine
\* The section map generateClaudeMemoryContent builds from the existing
\* file: cur is currentSection (NoSection when ""), acc is currentContent.
NoSection == [k |-> "none", t |-> "", s |-> ""]

RECURSIVE ParseSections(_, _, _, _, _)
ParseSections(lines, i, cur, acc, map) ==
  LET saved == IF cur = NoSection THEN map
               ELSE [x \in DOMAIN map \cup {cur} |-> IF x = cur THEN JoinLines(acc) ELSE map[x]]
  IN IF i > Len(lines) THEN saved
     ELSE IF IsH1(lines[i]) THEN ParseSections(lines, i + 1, lines[i], <<>>, saved)
     ELSE IF cur # NoSection THEN ParseSections(lines, i + 1, cur, Append(acc, lines[i]), map)
     ELSE ParseSections(lines, i + 1, cur, acc, map)

existingSections(f, path) ==
  IF ~fileExists(f, path) \/ f[path] = Empty THEN <<>>
  ELSE ParseSections(f[path], 1, NoSection, <<>>, <<>>)

RECURSIVE SectionParts(_, _)
SectionParts(map, order) ==
  IF order = <<>> THEN <<>>
  ELSE <<(<<Head(order)>> \o TrimSpace(map[Head(order)]))>> \o SectionParts(map, Tail(order))

\* generateClaudeMemoryContent: every text the reconstruction can return; the
\* range over the section map delivers the other sections in any order
generateClaudeMemoryContent(f, path, wexlerContent) ==
  LET old == existingSections(f, path)
      first == IF TrimSpace(wexlerContent) # Empty
               THEN <<(<<WexlerKey>> \o TrimSpace(wexlerContent))>> ELSE <<>>
      others == {x \in DOMAIN old \ {WexlerKey} : TrimSpace(old[x]) # Empty}
  IN {JoinParts(first \o SectionParts(old, o)) : o \in Orders(others)}

\* variant: the old file is kept in front of the generated content
getActualWriteContentKeepOld(f, file) ==
  IF file.Path.tool = "claude" /\ file.Type = "memory"
  THEN generateClaudeMemoryContent(f, file.Path, file.Content)
  ELSE {f[file.Path] \o file.Content}

\* variant: a server that is already in the MCP file keeps its definition
getActualWriteContentOldWins(f, file) ==
  IF file.Path.tool = "claude" /\ file.Type = "memory"
  THEN generateClaudeMemoryContent(f, file.Path, file.Content)
  ELSE IF file.Type = "mcp" /\ fileExists(f, file.Path)
  THEN {f[file.Path] \o SelectSeq(file.Content,
          LAMBDA e : \A k \in 1..Len(f[file.Path]) : f[file.Path][k].t # e.t)}
  ELSE {file.Content}

\* getActualWriteContent: the texts that may be written for a generated file
getActualWriteContent(f, file) ==
  IF file.Path.tool = "claude" /\ file.Type = "memory"
  THEN generateClaudeMemoryContent(f, file.Path, file.Content)
  ELSE {file.Content}

\* variant: the directory of the file is emptied of what is not managed
writeFileCleaningDir(f, path, content) ==
  [f EXCEPT ![path] = content, ![UserPath(path.tool)] = NoFile]

\* Manager.writeFile
writeFile(f, path, content) == [f EXCEPT ![path] = content]

\* what a destination can hold after writeFile returned an error or the
\* process died inside it: the old state (os.MkdirAll or the open failed),
\* or, os.WriteFile having truncated the file, the empty file or the
\* beginning of the new content
FailedWriteOutcomes(old, content) ==
  {old, Empty} \cup (IF Len(content) > 1 THEN {SubSeq(content, 1, 1)} ELSE {})

\* ------------------------------------------------------ conflict detection
\* variant: every existing destination is a conflict
IsConflictIfExists(f, file) == fileExists(f, file.Path)

\* the condition under which DetectConflicts and ApplyConfig create a conflict
IsConflict(f, file) ==
  fileExists(f, file.Path) /\ ExtractExistingContent(f, file.Path) # file.Content

\* the number of bytes of a line as it is written out; the path in a
\* provenance comment and a JSON entry are taken with a fixed length
LineLen(line) ==
  CASE line.k = "body" -> Len(line.t) + (IF line.s = "indent" THEN 2 ELSE 0)
    [] line.k = "h1" -> 2 + Len(line.t)
    [] line.k = "h1suffix" -> 2 + Len(line.t) + 19 + Len(line.s) + 1
    [] line.k = "h1wrap" -> 18 + Len(line.s)
    [] line.k = "src" -> 33
    [] line.k = "fm" -> 46 + Len(line.t)
    [] line.k = "json" -> 12 + Len(line.t)
    [] OTHER -> 0

\* len(content): the lines and the newlines between them
RECURSIVE ByteLen(_)
ByteLen(c) ==
  IF c = <<>> THEN 0
  ELSE IF Len(c) = 1 THEN LineLen(c[1])
  ELSE LineLen(c[1]) + 1 + ByteLen(Tail(c))

\* a ^ b on non-negative integers
RECURSIVE Xor(_, _)
Xor(a, b) ==
  IF a = 0 /\ b = 0 THEN 0
  ELSE (((a % 2) + (b % 2)) % 2) + (2 * Xor(a \div 2, b \div 2))

\* Manager.hashContent: len(content) ^ 0xDEADBEEF, kept as the pair of its
\* upper bits and its lower 16 bits (0xDEAD = 57005, 0xBEEF = 48879); the
\* hexadecimal rendering is one-to-one
hashContent(content) ==
  <<Xor((ByteLen(content) \div 65536), 57005), Xor((ByteLen(content) % 65536), 48879)>>

createConflict(file, existing) ==
  [FilePath |-> file.Path, FileType |-> file.Type,
   ExistingHash |-> hashContent(existing), NewHash |-> hashContent(file.Content)]

RECURSIVE DetectFrom(_, _, _)
DetectFrom(f, files, i) ==
  IF i > Len(files) THEN <<>>
  ELSE (IF IsConflict(f, files[i])
        THEN <<createConflict(files[i], ExtractExistingContent(f, files[i].Path))>>
        ELSE <<>>)
       \o DetectFrom(f, files, i + 1)

\* Manager.DetectConflicts over the generated list
DetectConflicts(f, files) == DetectFrom(f, files, 1)

\* variant: detection leaves an empty file at every missing destination
AfterDetectConflictsCreating(f, files) ==
  [p \in DOMAIN f |->
     IF f[p] = NoFile /\ \E i \in 1..Len(files) : files[i].Path = p THEN Empty ELSE f[p]]

\* the file system Manager.DetectConflicts leaves behind: its only calls on
\* the file system are os.Stat (fileExists) and os.ReadFile (the extractor)
AfterDetectConflicts(f, files) == f


\* ------------------------------------------------------------------ inputs
NoMemory == [HasTeam |-> FALSE, TeamContent |-> Empty,
             HasProject |-> FALSE, ProjectContent |-> Empty]
Memories ==
  { NoMemory,
    [HasTeam |-> TRUE, TeamContent |-> <<B("use tabs"), Blank>>,
     HasProject |-> TRUE, ProjectContent |-> Empty],
    [HasTeam |-> TRUE, TeamContent |-> <<H("Standards"), B("Use conventions.")>>,
     HasProject |-> TRUE, ProjectContent |-> <<B("local rule")>>] }

SubagentContent(n) == IF n = 1 THEN <<H("Reviewer"), B("review code")>> ELSE <<B("plan work")>>
SubagentMaps == {[n \in 1..k |-> SubagentContent(n)] : k \in 0..MaxSubagents}

\* a stored blob that is not base64, or does not decode to JSON
Malformed == "BAD"

\* MCPConfig.Validate: every stored blob decodes to JSON
MCPValidate(servers) == \A m \in DOMAIN servers : servers[m] # Malformed

\* ApplyConfig.Validate for the configurations runApply builds: it can fail
\* only on the MCP configuration
Validate(src) == MCPValidate(src.MCP)

\* the stored servers: none; a with definition X and c with definition Z;
\* a with definition X and c with a malformed blob
McpStores == {<<>>, [i \in {1, 3} |-> IF i = 1 THEN "X" ELSE "Z"],
              [i \in {1, 3} |-> IF i = 1 THEN "X" ELSE Malformed]}

Sources == [Memory : Memories, Subagents : SubagentMaps, MCP : McpStores]

\* The enabled tools are the keys of a map and --tool names a single tool or
\* "all", so a tool list holds no tool twice; both orders of a two-tool list
\* occur because the order of a map range is not fixed.
ToolLists == {<<"claude">>, <<"cursor">>, <<"claude", "cursor">>, <<"cursor", "claude">>}

\* the lists the loop over projectConfig.Tools can build for the tools of a
\* list: the same tools in any order
ToolOrders(list) ==
  {l \in ToolLists : {l[i] : i \in DOMAIN l} = {list[i] : i \in DOMAIN list}}

\* what a user may have left at a destination before the first run
UserFile(path, kind) ==
  IF kind = "none" THEN NoFile
  ELSE IF path.tool = "claude" /\ path.type = "memory"
       THEN IF kind = "plain" THEN <<H("Notes"), B("mine")>>
            ELSE IF kind = "marked"
            THEN <<B("intro"), H("WEXLER"), B("old"), H("Notes"), B("mine")>>
            ELSE IF kind = "twice"
            THEN <<H("WEXLER"), B("old"), H("WEXLER"), B("older"), H("Notes"), B("mine")>>
            ELSE <<H("WEXLER"), B("old"), H("Todo"), H("Notes"), B("mine"),
                   H("Links"), B("url")>>
       ELSE IF path.type = "mcp"
       THEN IF path.tool = "claude" THEN <<Json("a", "X"), Json("b", "Y")>>
            ELSE <<Json("a", "W"), Json("b", "Y")>>
       ELSE <<B("hand edited")>>

\* the destinations some tool of the list generates a file for
Destinations(source, toolList) ==
  UNION {{Generate(toolList[i], source, o)[j].Path :
            j \in 1..Len(Generate(toolList[i], source, o))} :
         i \in 1..Len(toolList), o \in Orders(DOMAIN source.Subagents)}

\* the file systems of a project before the first invocation.  What the
\* user left at the destinations is chosen for the shared memory file and,
\* per tool, for the files that belong to the tool alone (none of them
\* there, or all of them hand edited); the shared memory files with several
\* sections of the user, and the one with the marker heading twice, are
\* taken where it is the only destination.  The
\* paths nothing is generated for (the files of the user, the files of a
\* tool that is not selected or of a content type the source is without)
\* hold what the user wrote.
FileTypes == {"memory", "subagent", "mcp"}
InitialFileSystems(D) ==
  LET keys == {p.tool : p \in D \ {MemoryPath("claude")}} IN
  {[p \in Paths |-> IF p \notin D THEN UserFile(p, "plain")
                    ELSE IF p = MemoryPath("claude") THEN UserFile(p, m)
                    ELSE UserFile(p, g[p.tool])] :
     m \in IF MemoryPath("claude") \in D THEN {"none", "plain", "marked"}
               \cup (IF D = {MemoryPath("claude")} THEN {"sections", "twice"} ELSE {})
          ELSE {"none"},
     g \in [keys -> {"none", "plain"}]}

\* --------------------------------------------------------------- the state
VARIABLES
  source,      \* sourceConfig and mcpConfig loaded by runApply
  tools,       \* the tools of this invocation, in processing order
  dryRun,      \* --dry-run
  forceFlag,   \* --force as given on the command line
  force,       \* the package variable force, set by ContinueAll
  fs,          \* destination path -> text, or NoFile
  pc,          \* "loop", "prompt", "apply", "done" or "failed"
  ti,          \* index of the tool being processed
  cfgForce,    \* applyConfig.Force
  conflicts,   \* the conflicts DetectConflicts returned for the tool
  files,       \* the list Generate returned inside ApplyConfig
  fi,          \* index of the file ApplyConfig is at
  result,      \* the ApplyResult under construction / last returned
  stdinClosed, \* the prompt channel has reached end of input
  run,         \* number of the invocation
  fs0,         \* the file system when the invocation started
  hist,        \* what the invocation did so far: prompts and writes
  past         \* summary of the earlier invocations: what they wrote, whether stopped

vars == <<source, tools, dryRun, forceFlag, force, fs, pc, ti, cfgForce, conflicts,
          files, fi, result, stdinClosed, run, fs0, hist, past>>

NewApplyResult ==
  [Success |-> FALSE, FilesWritten |-> <<>>, FilesSkipped |-> <<>>, Conflicts |-> <<>>,
   Status |-> "none", Completed |-> 0, Total |-> 0, Error |-> FALSE]

\* variant: the error is recorded but the progress is left running
SetErrorRunning(ar) == [ar EXCEPT !.Success = FALSE, !.Error = TRUE]

\* ApplyResult.SetError with ApplyProgress.Fail
SetError(ar) == [ar EXCEPT !.Success = FALSE, !.Error = TRUE, !.Status = "failed"]

\* ApplyResult.AddWrittenFile
AddWrittenFile(ar, filePath) == [ar EXCEPT !.FilesWritten = Append(@, filePath)]

\* variant: a skipped file is also listed as written
AddSkippedFileAsWritten(ar, filePath) ==
  [ar EXCEPT !.FilesSkipped = Append(@, filePath), !.FilesWritten = Append(@, filePath)]

\* ApplyResult.AddSkippedFile
AddSkippedFile(ar, filePath) == [ar EXCEPT !.FilesSkipped = Append(@, filePath)]

\* ApplyResult.AddConflict
AddConflict(ar, conflict) == [ar EXCEPT !.Conflicts = Append(@, conflict)]

Init ==
  /\ source \in Sources
  /\ tools \in ToolLists
  /\ dryRun \in BOOLEAN
  /\ forceFlag \in BOOLEAN
  /\ force = forceFlag
  /\ fs \in InitialFileSystems(Destinations(source, tools))
  /\ pc = "loop"
  /\ ti = 1
  /\ cfgForce = FALSE
  /\ conflicts = <<>>
  /\ files = <<>>
  /\ fi = 1
  /\ result = NewApplyResult
  /\ stdinClosed = FALSE
  /\ run = 1
  /\ fs0 = fs
  /\ hist = <<>>
  /\ past = [written |-> {}, stopped |-> FALSE]


\* ---------------------------------------------------------------- runApply
Tool == tools[ti]

\* variant: ApplyConfig is entered without the force of the caller
EnterApplyConfigUnforced(applyForce, order) ==
  LET fl == Generate(Tool, source, order) IN
  /\ cfgForce' = FALSE
  /\ files' = fl
  /\ fi' = 1
  /\ result' = [NewApplyResult EXCEPT !.Status = "running", !.Total = Len(fl)]
  /\ pc' = "apply"

\* entering ApplyConfig: generation and models.NewApplyProgress(len(files))
EnterApplyConfig(applyForce, order) ==
  LET fl == Generate(Tool, source, order) IN
  /\ cfgForce' = applyForce
  /\ files' = fl
  /\ fi' = 1
  /\ result' = [NewApplyResult EXCEPT !.Status = "running", !.Total = Len(fl)]
  /\ pc' = "apply"

\* variant: a Stop (or a failed read) is taken as permission to overwrite
ResolveProceedOnStop(resolution, gforce, f) ==
  [skip |-> FALSE, cfgForce |-> TRUE,
   force |-> (gforce \/ resolution = "ContinueAll"), fs |-> f]

\* variant: a Stop cleans up the managed destinations
ResolveCleanOnStop(resolution, gforce, f) ==
  CASE resolution = "Continue" ->
         [skip |-> FALSE, cfgForce |-> TRUE, force |-> gforce, fs |-> f]
    [] resolution = "ContinueAll" ->
         [skip |-> FALSE, cfgForce |-> TRUE, force |-> TRUE, fs |-> f]
    [] OTHER ->
         [skip |-> TRUE, cfgForce |-> gforce, force |-> gforce,
          fs |-> [p \in DOMAIN f |-> NoFile]]

\* variant: ContinueAll forces the current tool only
ResolveToolOnly(resolution, gforce, f) ==
  CASE resolution \in {"Continue", "ContinueAll"} ->
         [skip |-> FALSE, cfgForce |-> TRUE, force |-> gforce, fs |-> f]
    [] OTHER ->
         [skip |-> TRUE, cfgForce |-> gforce, force |-> gforce, fs |-> f]

\* the switch on the resolution in runApply: whether the tool is skipped,
\* applyConfig.Force, the package variable force, and the file system
Resolve(resolution, gforce, f) ==
  CASE resolution = "Continue" ->
         [skip |-> FALSE, cfgForce |-> TRUE, force |-> gforce, fs |-> f]
    [] resolution = "ContinueAll" ->
         [skip |-> FALSE, cfgForce |-> TRUE, force |-> TRUE, fs |-> f]
    [] OTHER ->
         [skip |-> TRUE, cfgForce |-> gforce, force |-> gforce, fs |-> f]

\* promptUser: the choice read from the terminal; a read error comes back as
\* Stop together with the error, and runApply then defaults to Stop
Answers == {"Continue", "ContinueAll", "Stop", "Error"}
Resolution(answer) == IF answer = "Error" THEN "Stop" ELSE answer

\* variant: conflicts are put to the policy in dry-run mode too
NeedsPromptInDryRun(found, dry) == found # <<>>

\* len(conflicts) > 0 && !dryRun: the conflicts are put to the policy
NeedsPrompt(found, dry) == found # <<>> /\ ~dry

\* top of the loop over the tools: conflict detection unless forced, then
\* either the prompt or straight into ApplyConfig
BeginTool ==
  /\ pc = "loop"
  /\ ti <= Len(tools)
  /\ Validate(source)
  /\ \E o1, o2 \in Orders(DOMAIN source.Subagents) :
       LET found == IF force THEN <<>>
                    ELSE DetectConflicts(fs, Generate(Tool, source, o1))
       IN /\ conflicts' = found
          /\ fs' = IF force THEN fs
                    ELSE AfterDetectConflicts(fs, Generate(Tool, source, o1))
          /\ IF NeedsPrompt(found, dryRun)
             THEN /\ pc' = "prompt"
                  /\ UNCHANGED <<cfgForce, files, fi, result>>
             ELSE EnterApplyConfig(force, o2)
  /\ UNCHANGED <<source, tools, dryRun, forceFlag, force, ti, stdinClosed,
                 run, fs0, hist, past>>

\* top of the loop over the tools with a configuration that does not
\* validate: DetectConflicts (or, when forced, ApplyConfig) returns the
\* error and runApply returns it
ValidateFails ==
  /\ pc = "loop"
  /\ ti <= Len(tools)
  /\ ~Validate(source)
  /\ pc' = "failed"
  /\ UNCHANGED <<source, tools, dryRun, forceFlag, force, fs, ti, cfgForce, conflicts,
                 files, fi, result, stdinClosed, run, fs0, hist, past>>

\* promptUser returns and runApply acts on the resolution
Prompt ==
  /\ pc = "prompt"
  /\ \E answer \in Answers, order \in Orders(DOMAIN source.Subagents) :
       LET r == Resolve(Resolution(answer), force, fs) IN
       /\ stdinClosed => answer = "Error"
       /\ stdinClosed' = (answer = "Error")
       /\ hist' = Append(hist, [e |-> "prompt", tool |-> Tool, ti |-> ti, ans |-> answer,
                                shown |-> {conflicts[i].FilePath : i \in 1..Len(conflicts)}])
       /\ force' = r.force
       /\ fs' = r.fs
       /\ IF r.skip
          THEN /\ ti' = ti + 1
               /\ pc' = "loop"
               /\ UNCHANGED <<cfgForce, files, fi, result>>
          ELSE /\ EnterApplyConfig(r.cfgForce, order)
               /\ UNCHANGED ti
  /\ UNCHANGED <<source, tools, dryRun, forceFlag, conflicts, run, fs0, past>>

\* one iteration of the loop over the files in ApplyConfig
ApplyFile ==
  /\ pc = "apply"
  /\ fi <= Len(files)
  /\ LET file == files[fi]
         progress == [result EXCEPT !.Completed = fi - 1]
     IN IF dryRun
        THEN /\ result' = AddSkippedFile(progress, file.Path)
             /\ UNCHANGED <<fs, hist>>
        ELSE IF ~cfgForce /\ IsConflict(fs, file)
        THEN /\ result' = AddSkippedFile(
                             AddConflict(progress, createConflict(file,
                               ExtractExistingContent(fs, file.Path))),
                             file.Path)
             /\ UNCHANGED <<fs, hist>>
        ELSE \E actual \in getActualWriteContent(fs, file) :
             /\ fs' = writeFile(fs, file.Path, actual)
             /\ result' = AddWrittenFile(progress, file.Path)
             /\ hist' = Append(hist, [e |-> "write", tool |-> Tool, ti |-> ti, path |-> file.Path,
                                      conflict |-> IsConflict(fs, file),
                                      existed |-> fileExists(fs, file.Path),
                                      content |-> actual])
  /\ fi' = fi + 1
  /\ UNCHANGED <<source, tools, dryRun, forceFlag, force, pc, ti, cfgForce, conflicts,
                 files, stdinClosed, run, fs0, past>>

\* an iteration of the loop in ApplyConfig whose writeFile fails: the error
\* is set, ApplyConfig returns it and runApply returns it; failing writes
\* are followed in the first MaxFailRuns invocations
ApplyFileFails ==
  /\ pc = "apply"
  /\ run <= MaxFailRuns
  /\ fi <= Len(files)
  /\ ~dryRun
  /\ cfgForce \/ ~IsConflict(fs, files[fi])
  /\ LET file == files[fi]
         progress == [result EXCEPT !.Completed = fi - 1]
     IN \E actual \in getActualWriteContent(fs, file) :
          \E left \in FailedWriteOutcomes(fs[file.Path], actual) :
            /\ fs' = [fs EXCEPT ![file.Path] = left]
            /\ result' = SetError(progress)
            /\ hist' = Append(hist, [e |-> "fail", tool |-> Tool, ti |-> ti,
                                     path |-> file.Path, before |-> fs[file.Path],
                                     intended |-> actual])
  /\ pc' = "failed"
  /\ UNCHANGED <<source, tools, dryRun, forceFlag, force, ti, cfgForce, conflicts,
                 files, fi, stdinClosed, run, fs0, past>>

\* ApplyConfig returns after the last file and runApply goes to the next tool
ApplyReturn ==
  /\ pc = "apply"
  /\ fi > Len(files)
  /\ result' = IF Len(result.Conflicts) > 0
               THEN [result EXCEPT !.Success = TRUE, !.Error = TRUE]
               ELSE [result EXCEPT !.Success = TRUE, !.Error = FALSE,
                                   !.Completed = result.Total, !.Status = "completed"]
  /\ ti' = ti + 1
  /\ pc' = "loop"
  /\ UNCHANGED <<source, tools, dryRun, forceFlag, force, fs, cfgForce, conflicts,
                 files, fi, stdinClosed, run, fs0, hist, past>>

\* the loop over the tools is over and runApply returns
Exit ==
  /\ pc = "loop"
  /\ ti > Len(tools)
  /\ pc' = "done"
  /\ UNCHANGED <<source, tools, dryRun, forceFlag, force, fs, ti, cfgForce, conflicts,
                 files, fi, result, stdinClosed, run, fs0, hist, past>>

\* the same command is run again: a new process over the same project,
\* whose range over the enabled tools can deliver them in another order;
\* the model follows the invocations that returned without an error
Rerun ==
  /\ pc = "done"
  /\ run < MaxRuns
  /\ run' = run + 1
  /\ past' = [written |-> {hist[i].path : i \in {j \in 1..Len(hist) : hist[j].e = "write"}},
              stopped |-> \E i \in 1..Len(hist) :
                            hist[i].e = "prompt" /\ hist[i].ans \in {"Stop", "Error"}]
  /\ tools' \in ToolOrders(tools)
  /\ hist' = <<>>
  /\ fs0' = fs
  /\ force' = forceFlag
  /\ pc' = "loop"
  /\ ti' = 1
  /\ cfgForce' = FALSE
  /\ conflicts' = <<>>
  /\ files' = <<>>
  /\ fi' = 1
  /\ result' = NewApplyResult
  /\ stdinClosed' = FALSE
  /\ UNCHANGED <<source, dryRun, forceFlag, fs>>

Next ==
  \/ BeginTool
  \/ ValidateFails
  \/ Prompt
  \/ ApplyFile
  \/ ApplyFileFails
  \/ ApplyReturn
  \/ Exit
  \/ Rerun

Spec == Init /\ [][Next]_vars


\* ------------------------------------------------- reading the run's record
\* positions in hist of the policy invocations (promptUser returned)
PromptIdx == {i \in 1..Len(hist) : hist[i].e = "prompt"}
\* positions in hist of the files written by writeFile
WriteIdx == {i \in 1..Len(hist) : hist[i].e = "write"}
\* writes that replaced an existing file whose owned content differed
ConflictWriteIdx == {i \in WriteIdx : hist[i].conflict}
\* the paths written so far in this invocation
Written == {hist[i].path : i \in WriteIdx}
\* the conflicts the policy has been shown so far
Shown == UNION {hist[j].shown : j \in PromptIdx}
\* a policy invocation that ended the prompting: Stop, or a failed read
Halted(j) == hist[j].ans \in {"Stop", "Error"}
\* the answers of the policy in the order they were given
IsPromptEvent(ev) == ev.e = "prompt"
PromptEvents == SelectSeq(hist, IsPromptEvent)
\* the file Generate produces for a destination of this source
GeneratedFor(path) ==
  LET fl == Generate(path.tool, source, CHOOSE o \in Orders(DOMAIN source.Subagents) : TRUE)
  IN fl[CHOOSE i \in 1..Len(fl) : fl[i].Path = path]
\* the destinations of the tools processed from position i of the list on
DestinationsFrom(i) == Destinations(source, SubSeq(tools, i, Len(tools)))
Interactive == ~forceFlag /\ ~dryRun


\* ------------------------------------------------------------------ claims

\* C1: in a run that is neither forced nor dry-run, an existing file whose
\* owned content differs from the generated content is overwritten only
\* after the policy returned Continue for a prompt that showed this file's
\* conflict, or returned ContinueAll earlier in the run.
C1_NoOverwriteWithoutConsent ==
  Interactive =>
    \A i \in ConflictWriteIdx :
      \E j \in PromptIdx :
        /\ j < i
        /\ \/ hist[j].ans = "Continue" /\ hist[i].path \in hist[j].shown
           \/ hist[j].ans = "ContinueAll"

\* a conflicting file was overwritten in an interactive run
C1_Witness ==
  /\ Interactive
  /\ pc = "done"
  /\ \E i \in ConflictWriteIdx, j \in PromptIdx :
       j < i /\ hist[j].ans = "Continue" /\ hist[i].path \in hist[j].shown

\* C2: applying an unchanged source a second time (same tools, files not
\* touched in between, the first run having written every generated file)
\* meets no conflict and writes no file.
C2_SecondRunIdle ==
  (run = 2 /\ ~dryRun /\ ~past.stopped /\ past.written = Destinations(source, tools))
    => /\ WriteIdx = {}
       /\ PromptIdx = {}
       /\ pc # "prompt"
       /\ result.Conflicts = <<>>

\* C3: if the policy answers Continue for conflicts 1..k-1 and Stop at
\* conflict k, exactly k-1 conflicting files are written and nothing is
\* written from the Stop on.
C3_StopAtK ==
  (pc = "done" /\ Interactive) =>
    \A k \in 1..Len(PromptEvents) :
      (/\ PromptEvents[k].ans = "Stop"
       /\ \A m \in 1..(k - 1) : PromptEvents[m].ans = "Continue")
      => /\ Cardinality(ConflictWriteIdx) = k - 1
         /\ \A j \in PromptIdx : hist[j].ans = "Stop" =>
              \A i \in WriteIdx : i < j

C5_StopEndsRun ==
  \A j \in PromptIdx :
    hist[j].ans = "Stop" =>
      /\ hist[j].shown \cap Written = {}
      /\ \A i \in WriteIdx : i < j
      /\ pc \in {"loop", "done"}

\* C6: after a Continue prompting stays enabled: between the overwrite of
\* one conflicting file and the overwrite of the next there is a new policy
\* invocation (as long as ContinueAll was never answered).
C6_ContinuePromptsAgain ==
  (Interactive /\ \A j \in PromptIdx : hist[j].ans # "ContinueAll") =>
    \A i1, i2 \in ConflictWriteIdx :
      i1 < i2 => \E j \in PromptIdx : i1 < j /\ j < i2

\* C7: without ContinueAll the policy is invoked exactly once per
\* conflicting file that is reached: as many invocations as conflicts.
C7_OnePromptPerConflict ==
  (pc = "done" /\ Interactive /\ \A j \in PromptIdx : hist[j].ans = "Continue") =>
    Cardinality(PromptIdx) = Cardinality(Shown)

\* C8: once the policy returned ContinueAll it is not invoked again in the
\* run, and when the run ends every file of the current and of the later
\* tools, conflicting or not, has been written.
C8_ContinueAllMonotone ==
  \A j \in PromptIdx :
    hist[j].ans = "ContinueAll" =>
      /\ \A i \in PromptIdx : i <= j
      /\ pc # "prompt"
      /\ pc = "done" => DestinationsFrom(hist[j].ti) \subseteq Written

\* ContinueAll at one tool, and a conflicting file of a later tool written
C8_Witness ==
  /\ pc = "done"
  /\ \E j \in PromptIdx, i \in ConflictWriteIdx :
       hist[j].ans = "ContinueAll" /\ j < i /\ hist[i].ti > hist[j].ti

\* C9: a failed or cancelled prompt behaves as Stop: the conflicting files
\* are not written and nothing is written after it in the invocation.
C9_FailureIsStop ==
  \A j \in PromptIdx :
    hist[j].ans = "Error" =>
      /\ \A i \in WriteIdx : i < j
      /\ hist[j].shown \cap Written = {}

\* C10: in a run that is not a dry run every generated file without a
\* conflict has been written when the run ends, whatever the policy
\* answered for the conflicting ones.
C10_UnconflictedWritten ==
  (pc = "done" /\ ~dryRun) =>
    \A p \in Destinations(source, tools) :
      ~IsConflict(fs0, GeneratedFor(p)) => p \in Written


\* ------------------------------------------- reading the conflict detector
\* runApply has just called DetectConflicts for the tool and no file has
\* been touched since
Detected == pc = "prompt" \/ (pc = "apply" /\ fi = 1 /\ ~cfgForce)
\* the paths of the conflicts DetectConflicts returned
ConflictPaths == {conflicts[i].FilePath : i \in 1..Len(conflicts)}
\* the destinations of the tool being processed
ToolDestinations == Destinations(source, <<Tool>>)
\* the text holds a level-1 heading that the extractor takes as the marker
HasMarker(content) == \E i \in 1..Len(content) : EqualFoldWexler(content[i])

\* C11: in dry-run mode no destination is created or modified and the
\* resolution policy is never invoked, whatever conflicts exist.
C11_DryRunFrame ==
  dryRun => /\ fs = fs0
            /\ WriteIdx = {}
            /\ PromptIdx = {}
            /\ pc # "prompt"

\* a dry run that met conflicts and has ended, every file only recorded
C11_Witness ==
  /\ dryRun /\ ~forceFlag
  /\ pc = "done"
  /\ conflicts # <<>>
  /\ result.FilesSkipped # <<>>

\* C12: a conflict is produced for a generated file exactly when its
\* destination exists and the owned content extracted from it is not equal
\* to the generated content; a destination that does not exist never
\* yields a conflict.
C12_ConflictIff ==
  Detected =>
    LET fl == Generate(Tool, source, CHOOSE o \in Orders(DOMAIN source.Subagents) : TRUE)
    IN /\ ConflictPaths \subseteq {fl[k].Path : k \in 1..Len(fl)}
       /\ \A k \in 1..Len(fl) :
            fl[k].Path \in ConflictPaths <=>
              (/\ fs[fl[k].Path] # NoFile
               /\ ExtractExistingContent(fs, fl[k].Path) # fl[k].Content)

\* detection met a differing file and an existing file that is up to date
C12_Witness ==
  /\ Detected
  /\ \E p, q \in ToolDestinations :
       /\ p \in ConflictPaths
       /\ q \notin ConflictPaths
       /\ fs[q] # NoFile
       /\ ExtractExistingContent(fs, q) = GeneratedFor(q).Content

\* C13: an existing shared memory file without the owned marker heading is
\* treated as pure creation: the detector reports no conflict for it.
C13_NoMarkerNoConflict ==
  (/\ Detected
   /\ Tool = "claude"
   /\ MemoryPath("claude") \in ToolDestinations
   /\ fileExists(fs, MemoryPath("claude"))
   /\ ~HasMarker(fs[MemoryPath("claude")]))
  => MemoryPath("claude") \notin ConflictPaths

\* C14: when apply is run again after a run that was stopped part-way (same
\* source, files not touched in between), a file the earlier run wrote is
\* not reported as a conflict again.
C14_ResumeReportsOnlyUnapplied ==
  (run > 1 /\ ~dryRun /\ past.stopped /\ Detected) =>
    ConflictPaths \cap past.written = {}

\* ---------------------------------------------- reading the apply result
\* the elements of a list
SeqSet(s) == {s[i] : i \in 1..Len(s)}
\* the paths writeFile has written in the ApplyConfig call under way
WrittenByCall == {hist[i].path : i \in {j \in WriteIdx : hist[j].ti = ti}}
\* the files the loop of ApplyConfig has been through
Processed == {files[k].Path : k \in 1..(fi - 1)}

HeadingIdx(c) == {i \in 1..Len(c) : IsH1(c[i])}
\* the last line of the section whose heading is line i
RECURSIVE SectionEnd(_, _)
SectionEnd(c, i) ==
  IF i + 1 > Len(c) \/ IsH1(c[i + 1]) THEN i ELSE SectionEnd(c, i + 1)
\* the section whose heading is line i: heading and body
SectionAt(c, i) == SubSeq(c, i, SectionEnd(c, i))
\* the headings of the sections that are not the owned one
ForeignIdx(c) == {i \in HeadingIdx(c) : c[i] # WexlerKey}
\* the writes of this invocation into an existing shared memory file
UpsertIdx ==
  {i \in WriteIdx : hist[i].path = MemoryPath("claude") /\ fs0[hist[i].path] # NoFile}

\* C16: after the owned section is upserted into the shared memory file,
\* every other top-level section the file had before is still in the file
\* with the same heading and the same body (the blank lines that separate
\* sections apart).
C16_ForeignSectionsKept ==
  \A i \in UpsertIdx :
    LET old == fs0[hist[i].path]
        new == hist[i].content
    IN \A a \in ForeignIdx(old) :
         \E b \in HeadingIdx(new) :
           DropTrailingBlank(SectionAt(new, b)) = DropTrailingBlank(SectionAt(old, a))

\* C17: after an upsert the other top-level sections come in the order they
\* had before, and the owned block is at its fixed position, the head of
\* the file.
C17_ForeignOrderKept ==
  \A i \in UpsertIdx :
    LET old == fs0[hist[i].path]
        new == hist[i].content
    IN /\ new[1] = WexlerKey
       /\ \A a1, a2 \in ForeignIdx(old) :
            (/\ a1 < a2
             /\ old[a1] # old[a2]
             /\ \E b \in HeadingIdx(new) : new[b] = old[a1]
             /\ \E b \in HeadingIdx(new) : new[b] = old[a2])
            => \E b1, b2 \in HeadingIdx(new) :
                 b1 < b2 /\ new[b1] = old[a1] /\ new[b2] = old[a2]

\* the content of the generated file for a destination, in the list that
\* Generate returned to the ApplyConfig call under way
FileContent(path) == files[CHOOSE k \in 1..Len(files) : files[k].Path = path].Content

\* the writes of this invocation of subagent files and of memory files that
\* belong to one tool alone
WholeFileIdx ==
  {i \in WriteIdx : /\ hist[i].path.type \in {"subagent", "memory"}
                    /\ hist[i].path # MemoryPath("claude")}

\* C18: a subagent file or a tool-dedicated memory file is replaced as a
\* whole: what the ApplyConfig call under way has written for it is
\* exactly the content of the generated file, and the file holds exactly
\* what was written, to the end of the invocation; nothing of the old file
\* is kept.
C18_WholeFileReplace ==
  \A i \in WholeFileIdx :
    /\ fs[hist[i].path] = hist[i].content
    /\ (pc = "apply" /\ hist[i].ti = ti) =>
         hist[i].content = FileContent(hist[i].path)

\* a hand-edited subagent file and a hand-edited dedicated memory file were
\* overwritten
C18_Witness ==
  /\ pc = "done"
  /\ \E i, j \in WholeFileIdx :
       /\ hist[i].path.type = "subagent"
       /\ hist[j].path.type = "memory"
       /\ hist[i].existed /\ fs0[hist[i].path] # fs[hist[i].path]
       /\ hist[j].existed /\ fs0[hist[j].path] # fs[hist[j].path]

\* ---------------------------------------------------- reading an MCP file
\* the writes of this invocation over an existing MCP file
McpWriteIdx ==
  {i \in WriteIdx : hist[i].path.type = "mcp" /\ fs0[hist[i].path] # NoFile}
\* the server entries of an MCP file
ServerEntries(c) == {c[k] : k \in {n \in 1..Len(c) : c[n].k = "json"}}
\* the server names of an MCP file
ServerNames(c) == {e.t : e \in ServerEntries(c)}

\* C19: when the MCP file is written, every server that exists only in the
\* old file is still in the resulting file with its definition unchanged.
C19_OldServersKept ==
  \A i \in McpWriteIdx :
    LET old == fs0[hist[i].path]
        gen == GeneratedFor(hist[i].path).Content
    IN \A e \in ServerEntries(old) :
         e.t \notin ServerNames(gen) => e \in ServerEntries(hist[i].content)

\* C20: with the servers a:X and b:Y on disk and a:X and c:Z generated, no
\* conflict is reported for the MCP file and the file written holds a, b
\* and c.
C20_McpPerServer ==
  \A t \in Tools :
    (/\ McpPath(t) \in Destinations(source, tools)
     /\ fs0[McpPath(t)] = <<Json("a", "X"), Json("b", "Y")>>
     /\ GeneratedFor(McpPath(t)).Content = <<Json("a", "X"), Json("c", "Z")>>)
    => /\ (Detected /\ Tool = t) => McpPath(t) \notin ConflictPaths
       /\ \A i \in WriteIdx :
            hist[i].path = McpPath(t) =>
              {Json("a", "X"), Json("b", "Y"), Json("c", "Z")}
                \subseteq ServerEntries(hist[i].content)

\* the server entries generated from the store of this invocation
StoredEntries == {Json(ServerName(m), source.MCP[m]) : m \in DOMAIN source.MCP}

\* C21: when the MCP file is written, every server of the generated set is
\* in the resulting file with the generated definition and with no other
\* definition: for a server on both sides the source wins.
C21_SourceWins ==
  \A i \in WriteIdx :
    hist[i].path.type = "mcp" =>
      /\ StoredEntries \subseteq ServerEntries(hist[i].content)
      /\ \A e \in ServerEntries(hist[i].content) :
           e.t \in {g.t : g \in StoredEntries} => e \in StoredEntries
      /\ fs[hist[i].path] = hist[i].content

\* an MCP file whose server a had another definition was written
C21_Witness ==
  /\ pc = "done"
  /\ \E i \in McpWriteIdx :
       /\ Json("a", "W") \in ServerEntries(fs0[hist[i].path])
       /\ Json("a", "X") \in ServerEntries(fs[hist[i].path])

\* the store of this invocation holds a blob that cannot be decoded
HasMalformed == \E m \in DOMAIN source.MCP : source.MCP[m] = Malformed
\* the entries of the stored servers whose blob decodes
WellFormedEntries == {e \in StoredEntries : e.s # Malformed}

\* C22: a malformed stored blob fails the generation of that server only:
\* the run is not aborted, and when a forced run ends the MCP file of every
\* tool holds the other servers.
C22_MalformedIsolated ==
  HasMalformed =>
    /\ pc # "failed"
    /\ (pc = "done" /\ forceFlag /\ ~dryRun) =>
         \A k \in 1..Len(tools) :
           WellFormedEntries \subseteq ServerEntries(fs[McpPath(tools[k])])

\* --------------------------------------------------- reading a failed write
\* positions in hist of the writeFile calls that failed
FailIdx == {i \in 1..Len(hist) : hist[i].e = "fail"}

\* C23: a write is all or nothing: after a write that failed or was cut
\* short the destination holds its complete old content or the complete
\* new content.
C23_WriteAllOrNothing ==
  \A i \in FailIdx :
    fs[hist[i].path] \in {hist[i].before, hist[i].intended}

\* C24: when a write fails the ApplyConfig call of that tool ends failed
\* (no success, the error set, the progress failed, and nothing further is
\* processed), and every file the call had already written holds the
\* content that was written.
C24_FailedKeepsApplied ==
  \A i \in FailIdx :
    /\ pc = "failed"
    /\ i = Len(hist)
    /\ ~result.Success
    /\ result.Error
    /\ result.Status = "failed"
    /\ \A j \in WriteIdx :
         hist[j].ti = hist[i].ti =>
           /\ fs[hist[j].path] = hist[j].content
           /\ hist[j].path \in SeqSet(result.FilesWritten)

\* a write failed after the same call had replaced a hand-edited file
C24_Witness ==
  \E i \in FailIdx :
    \E j \in ConflictWriteIdx :
      /\ hist[j].ti = hist[i].ti
      /\ fs[hist[i].path] \notin {hist[i].before, hist[i].intended}

\* C25: the processing order is stable: an invocation on the same source
\* and the same enabled tools goes through the tools in the order the
\* invocation before it did.
C25_StableOrder ==
  [][run' # run => tools' = tools]_vars

\* C26: DetectConflicts is read-only: the step of runApply that calls it
\* (the top of the loop, unless forced) leaves every file as it was,
\* whatever the file system holds.
C26_DetectReadOnly ==
  [][(pc = "loop" /\ pc' \in {"prompt", "apply"} /\ ~force) => fs' = fs]_vars

\* detection has run over a project in which one destination of the tool
\* is missing and another holds a hand-edited file, and reported a conflict
C26_Witness ==
  /\ pc = "prompt"
  /\ conflicts # <<>>
  /\ \E p, q \in ToolDestinations :
       /\ fs[p] = NoFile
       /\ fs[q] # NoFile

\* the destinations of the files generated for a tool of this invocation
GeneratedPaths(tool) ==
  LET fl == Generate(tool, source, CHOOSE o \in Orders(DOMAIN source.Subagents) : TRUE)
  IN {fl[j].Path : j \in 1..Len(fl)}
\* the destinations of the files generated for the tools of this invocation
SelectedDestinations == UNION {GeneratedPaths(tools[i]) : i \in 1..Len(tools)}

FirstMarker(c) ==
  CHOOSE i \in 1..Len(c) :
    EqualFoldWexler(c[i]) /\ \A j \in 1..(i - 1) : ~EqualFoldWexler(c[j])

\* C28: extraction does not fail on what a file holds: for every existing
\* file the extractor returns a text; for the shared memory file without
\* the marker heading that text is the empty one, for the files that
\* belong to one tool it is the whole file.
C28_ExtractionTotal ==
  \A p \in Paths :
    fileExists(fs, p) =>
      LET r == ExtractExistingContent(fs, p) IN
      /\ r # ExtractFailure
      /\ Len(r) >= 1
      /\ (p = MemoryPath("claude") /\ ~HasMarker(fs[p])) => r = Empty
      /\ p # MemoryPath("claude") => r = fs[p]

\* detection ran on a shared memory file without the marker heading and a
\* failed write then left the file cut short
C28_Witness ==
  /\ fs0[MemoryPath("claude")] = <<H("Notes"), B("mine")>>
  /\ \E i \in FailIdx :
       /\ hist[i].path = MemoryPath("claude")
       /\ fs[hist[i].path] = SubSeq(hist[i].intended, 1, 1)
       /\ \E j \in PromptIdx : j < i

\* C29: from the shared memory file the extractor returns the text between
\* the first marker heading and the next top-level heading or the end of
\* the file, and nothing that follows a later top-level heading.
C29_FirstMarkerSectionOnly ==
  LET c == fs[MemoryPath("claude")] IN
  (fileExists(fs, MemoryPath("claude")) /\ HasMarker(c)) =>
    ExtractExistingContent(fs, MemoryPath("claude"))
      = TrimRight(JoinLines(Tail(SectionAt(c, FirstMarker(c)))))

\* ------------------------------------------------- reading memory content
\* both scopes of the memory of this invocation have content
BothScopes ==
  /\ source.Memory.HasTeam /\ TrimSpace(source.Memory.TeamContent) # Empty
  /\ source.Memory.HasProject /\ TrimSpace(source.Memory.ProjectContent) # Empty
\* the lines of a text that carry the given scope
ScopeIdx(c, scope) == {i \in 1..Len(c) : c[i].s = scope}
\* the generated memory content without the front matter of a rules file
MemoryBody(file) ==
  IF file.Path.tool = "cursor" THEN SubSeq(file.Content, 3, Len(file.Content))
  ELSE file.Content

\* C30: when both scopes have content, the generated memory content is the
\* team block, one blank line, then the project block.
C30_TeamBeforeProject ==
  BothScopes =>
    \A k \in 1..Len(files) :
      files[k].Type = "memory" =>
        LET c == MemoryBody(files[k])
            p == CHOOSE i \in ScopeIdx(c, "project") :
                   \A j \in ScopeIdx(c, "project") : i <= j
        IN /\ ScopeIdx(c, "team") # {} /\ ScopeIdx(c, "project") # {}
           /\ \A i \in ScopeIdx(c, "team") : i < p
           /\ c[p - 1] = Blank
           /\ c[p - 2] # Blank
           /\ SubSeq(c, 1, p - 2) =
                ProcessMemoryContent(source.Memory.TeamContent, "team")
           /\ SubSeq(c, p, Len(c)) =
                ProcessMemoryContent(source.Memory.ProjectContent, "project")

\* memory with both scopes was generated for the rules file, after it was
\* generated and written for the shared memory file
C30_Witness ==
  /\ BothScopes
  /\ pc = "apply"
  /\ Tool = "cursor"
  /\ \E k \in 1..Len(files) :
       /\ files[k].Path = MemoryPath("cursor")
       /\ Len(files[k].Content) > 5
  /\ \E i \in WriteIdx :
       /\ hist[i].path = MemoryPath("claude")
       /\ ScopeIdx(hist[i].content, "team") # {}
       /\ ScopeIdx(hist[i].content, "project") # {}

\* ------------------------------------------------- the library on its own
\* The entry points of the library called one after the other on source
\* models that runApply's project need not hold: Adapter.Generate,
\* Manager.DetectConflicts, Manager.ResolveConflicts.

\* the lines a raw text of the source is made of
RawLines == {H("A"), B("x"), Indented("y"), Blank}
\* the raw texts of at most MaxLines lines
RawTexts == UNION {[1..n -> RawLines] : n \in 1..MaxLines}

\* memory whose team scope holds any raw text, with a project scope that is
\* empty, blank or short; each scope there or missing
LibraryMemories ==
  {[HasTeam |-> ht, TeamContent |-> t, HasProject |-> hp, ProjectContent |-> p] :
     ht \in BOOLEAN, hp \in BOOLEAN, t \in RawTexts,
     p \in {Empty, <<Blank, Blank>>, <<B("local rule")>>}}

\* one subagent with any raw text, alone or next to a second subagent
LibrarySubagentMaps ==
  {[n \in {1} |-> t] : t \in RawTexts}
    \cup {[n \in {1, 3} |-> IF n = 1 THEN t ELSE <<B("be general")>>] : t \in RawTexts}

LibrarySources ==
  [Memory : LibraryMemories, Subagents : {<<>>}, MCP : {<<>>}]
    \cup [Memory : {NoMemory}, Subagents : LibrarySubagentMaps,
          MCP : {<<>>, [i \in {1, 3} |-> IF i = 1 THEN "X" ELSE "Z"]}]

LibraryPaths == Paths \cup {SubagentPath(tool, n) : tool \in Tools, n \in 1..3}

\* the project before the calls: nothing, or a file of the user at the
\* destination of the first subagent
LibraryFileSystems ==
  {[p \in LibraryPaths |-> IF p.type = "subagent" /\ p.name = 1 THEN c ELSE NoFile] :
     c \in {NoFile, <<B("y")>>, <<B("x"), B("x")>>}}

LibraryInit ==
  /\ source \in LibrarySources
  /\ tools \in {<<"claude">>, <<"cursor">>}
  /\ fs \in LibraryFileSystems
  /\ pc = "generate"
  /\ dryRun = FALSE
  /\ forceFlag = FALSE
  /\ force = FALSE
  /\ ti = 1
  /\ cfgForce = FALSE
  /\ conflicts = <<>>
  /\ files = <<>>
  /\ fi = 1
  /\ result = NewApplyResult
  /\ stdinClosed = FALSE
  /\ run = 1
  /\ fs0 = fs
  /\ hist = <<>>
  /\ past = [written |-> {}, stopped |-> FALSE]

\* Adapter.Generate on the tool configuration
AdapterGenerate ==
  /\ pc = "generate"
  /\ \E order \in Orders(DOMAIN source.Subagents) :
       files' = Generate(Tool, source, order)
  /\ pc' = "detect"
  /\ UNCHANGED <<source, tools, dryRun, forceFlag, force, fs, ti, cfgForce, conflicts,
                 fi, result, stdinClosed, run, fs0, hist, past>>

\* Manager.DetectConflicts, seen from its loop over the generated files on
ManagerDetectConflicts ==
  /\ pc = "detect"
  /\ conflicts' = DetectConflicts(fs, files)
  /\ pc' = "resolve"
  /\ UNCHANGED <<source, tools, dryRun, forceFlag, force, fs, ti, cfgForce,
                 files, fi, result, stdinClosed, run, fs0, hist, past>>

\* the values a models.ConflictResolution can hold: the three constants and
\* any other integer
ConflictResolutions == {"Continue", "ContinueAll", "Stop", "Other"}

\* variant: the switch is entered with an empty list too
ResolveConflictsNoShortcut(list, resolution) ==
  CASE resolution \in {"Continue", "ContinueAll"} -> "nil"
    [] resolution = "Stop" -> "stopped"
    [] OTHER -> "unknown"

\* Manager.ResolveConflicts: the error it returns, "nil" for none
ResolveConflicts(list, resolution) ==
  IF Len(list) = 0 THEN "nil"
  ELSE CASE resolution \in {"Continue", "ContinueAll"} -> "nil"
         [] resolution = "Stop" -> "stopped"
         [] OTHER -> "unknown"

\* a caller hands the detected conflicts and a resolution to ResolveConflicts
ManagerResolveConflicts ==
  /\ pc = "resolve"
  /\ \E resolution \in ConflictResolutions :
       hist' = Append(hist, [e |-> "ResolveConflicts", n |-> Len(conflicts),
                             resolution |-> resolution,
                             err |-> ResolveConflicts(conflicts, resolution)])
  /\ pc' = "end"
  /\ UNCHANGED <<source, tools, dryRun, forceFlag, force, fs, ti, cfgForce, conflicts,
                 files, fi, result, stdinClosed, run, fs0, past>>

LibraryNext ==
  \/ AdapterGenerate
  \/ ManagerDetectConflicts
  \/ ManagerResolveConflicts

LibrarySpec == LibraryInit /\ [][LibraryNext]_vars

\* ----------------------------------------------- reading generated memory
\* a scope of the memory of this source is there and not empty once trimmed
TeamIn == source.Memory.HasTeam /\ TrimSpace(source.Memory.TeamContent) # Empty
ProjectIn == source.Memory.HasProject /\ TrimSpace(source.Memory.ProjectContent) # Empty
\* the generated files of type memory
MemoryFileIdx == {k \in 1..Len(files) : files[k].Type = "memory"}

\* C31: a scope that is missing or empty after trimming contributes nothing
\* to the generated memory content: the content is then the block of the
\* other scope alone; with no scope left no memory file is generated.
C31_EmptyScopeOmitted ==
  pc # "generate" =>
    /\ (~TeamIn /\ ~ProjectIn) => MemoryFileIdx = {}
    /\ (TeamIn \/ ProjectIn) => Cardinality(MemoryFileIdx) = 1
    /\ \A k \in MemoryFileIdx :
         LET c == MemoryBody(files[k]) IN
         /\ c # Empty
         /\ ~TeamIn =>
              /\ ScopeIdx(c, "team") = {}
              /\ c = ProcessMemoryContent(source.Memory.ProjectContent, "project")
         /\ ~ProjectIn =>
              /\ ScopeIdx(c, "project") = {}
              /\ c = ProcessMemoryContent(source.Memory.TeamContent, "team")

\* a memory file was generated from a team scope of blank lines only and a
\* project scope with content
C31_Witness ==
  /\ pc = "resolve"
  /\ source.Memory.HasTeam
  /\ source.Memory.TeamContent = <<Blank, Blank>>
  /\ ProjectIn
  /\ MemoryFileIdx # {}

\* the headings the header rule finds in a raw text, and its body lines:
\* the lines that are neither headings nor blank
RawHeadings(c) == {i \in 1..Len(c) : IsH1(c[i]) /\ c[i].t # ""}
IsBodyLine(line) == line.k = "body" /\ line # Blank
BodyLines(c) == SelectSeq(c, IsBodyLine)
OneOrMore(h) == IF h = 0 THEN 1 ELSE h
\* the headings of a generated text that carry the annotation of a scope
AnnotatedIdx(c, scope) ==
  {i \in 1..Len(c) : c[i].k \in {"h1suffix", "h1wrap"} /\ c[i].s = scope}

\* C32: formatting a scope with content gives max(1, h) headings annotated
\* with the scope, h being the number of top-level headings of the raw text,
\* each followed by the provenance comment, and the body lines of the raw
\* text appear unchanged and in their order.
C32_FormattedScope ==
  (pc # "generate" /\ source.Memory # NoMemory) =>
    \A k \in MemoryFileIdx :
      LET c == MemoryBody(files[k])
          team == source.Memory.TeamContent
          project == source.Memory.ProjectContent
      IN /\ TeamIn =>
              /\ Cardinality(AnnotatedIdx(c, "team")) = OneOrMore(Cardinality(RawHeadings(team)))
              /\ \A i \in AnnotatedIdx(c, "team") :
                    i + 1 <= Len(c) /\ c[i + 1] = SourceComment("team")
         /\ ProjectIn =>
              /\ Cardinality(AnnotatedIdx(c, "project")) = OneOrMore(Cardinality(RawHeadings(project)))
              /\ \A i \in AnnotatedIdx(c, "project") :
                    i + 1 <= Len(c) /\ c[i + 1] = SourceComment("project")
         /\ BodyLines(c) = (IF TeamIn THEN BodyLines(team) ELSE <<>>)
                              \o (IF ProjectIn THEN BodyLines(project) ELSE <<>>)

\* the generated files of type subagent for the subagent n of the source
SubagentFileIdx(n) ==
  {k \in 1..Len(files) : files[k].Type = "subagent" /\ files[k].Path = SubagentPath(Tool, n)}
\* strings.HasSuffix(content, raw)
HasSuffix(content, raw) ==
  /\ Len(raw) <= Len(content)
  /\ SubSeq(content, Len(content) - Len(raw) + 1, Len(content)) = raw

\* C33: each subagent of the source has exactly one generated file of type
\* subagent for the tool, and its raw body is in that file unmodified, with
\* at most a preamble in front of it.
C33_SubagentPassedThrough ==
  pc # "generate" =>
    /\ Cardinality({k \in 1..Len(files) : files[k].Type = "subagent"})
         = Cardinality(DOMAIN source.Subagents)
    /\ \A n \in DOMAIN source.Subagents :
         /\ Cardinality(SubagentFileIdx(n)) = 1
         /\ \A k \in SubagentFileIdx(n) : HasSuffix(files[k].Content, source.Subagents[n])
\* C34: ResolveConflicts returns an error exactly when the conflict list is
\* not empty and the resolution is Stop or not one of the three known
\* choices; with Continue or ContinueAll, or with an empty list, it returns
\* no error.
C34_ResolveErrorIffStop ==
  \A i \in 1..Len(hist) :
    hist[i].e = "ResolveConflicts" =>
      ((hist[i].err # "nil")
         <=> (hist[i].n > 0 /\ hist[i].resolution \notin {"Continue", "ContinueAll"}))

\* ResolveConflicts was called with Stop and no conflict and returned no
\* error, for a directory that holds a file equal to the generated one
C34_Witness ==
  /\ \E i \in 1..Len(hist) :
       /\ hist[i].e = "ResolveConflicts"
       /\ hist[i].n = 0
       /\ hist[i].resolution = "Stop"
       /\ hist[i].err = "nil"
  /\ \E k \in 1..Len(files) : fs[files[k].Path] = files[k].Content
\* C35: in a forced run that is not a dry run the resolution policy is never
\* invoked and every generated file of every selected tool is written,
\* whether or not its destination exists with other content: the files
\* ApplyConfig has been through are written, and so are all generated files
\* of the tools whose ApplyConfig call has returned.
C35_ForcedWritesAll ==
  (forceFlag /\ ~dryRun) =>
    /\ PromptIdx = {}
    /\ pc # "prompt"
    /\ conflicts = <<>>
    /\ pc = "apply" => Processed \subseteq Written
    /\ \A i \in 1..(ti - 1) : GeneratedPaths(tools[i]) \subseteq Written
    /\ pc = "done" => SelectedDestinations \subseteq Written

\* a forced run has ended, and one of its writes replaced a file whose
\* owned content differed from the generated content
C35_Witness ==
  /\ forceFlag /\ ~dryRun
  /\ pc = "done"
  /\ SelectedDestinations # {}
  /\ ConflictWriteIdx # {}
\* ------------------------------------------------- ApplyConfig on its own
\* Manager.ApplyConfig called directly, as the tests and runApply do, for a
\* source with or without a memory, with no subagent, one subagent, or two
\* of which one is named "general", forced or not, dry or not
ApplySources ==
  [Memory : {NoMemory, [HasTeam |-> TRUE, TeamContent |-> <<B("x")>>,
                        HasProject |-> FALSE, ProjectContent |-> Empty]},
   Subagents : {<<>>, [n \in {1} |-> <<B("x")>>], [n \in {1, 3} |-> <<B("x")>>]},
   MCP : {<<>>}]

ApplyInit ==
  /\ source \in ApplySources
  /\ tools \in {<<"claude">>, <<"cursor">>}
  /\ dryRun \in BOOLEAN
  /\ forceFlag = FALSE
  /\ force = FALSE
  /\ fs \in LibraryFileSystems
  /\ pc = "generate"
  /\ ti = 1
  /\ cfgForce = FALSE
  /\ conflicts = <<>>
  /\ files = <<>>
  /\ fi = 1
  /\ result = NewApplyResult
  /\ stdinClosed = FALSE
  /\ run = 1
  /\ fs0 = fs
  /\ hist = <<>>
  /\ past = [written |-> {}, stopped |-> FALSE]

\* the call of ApplyConfig up to the loop over the generated files
ManagerApplyConfig ==
  /\ pc = "generate"
  /\ \E applyForce \in BOOLEAN, order \in Orders(DOMAIN source.Subagents) :
       EnterApplyConfig(applyForce, order)
  /\ UNCHANGED <<source, tools, dryRun, forceFlag, force, fs, ti, conflicts,
                 stdinClosed, run, fs0, hist, past>>

ApplyNext ==
  \/ ManagerApplyConfig
  \/ ApplyFile
  \/ ApplyFileFails
  \/ ApplyReturn

ApplySpec == ApplyInit /\ [][ApplyNext]_vars

\* C36: when ApplyConfig returns, the progress record is completed or
\* failed, never still running or paused, and the success flag of the
\* result is true exactly when the status is completed.
C36_TerminalOnReturn ==
  [][(pc = "apply" /\ pc' # "apply") =>
       /\ result'.Status \in {"completed", "failed"}
       /\ result'.Success <=> result'.Status = "completed"]_vars
\* C37: in the list of files generated for one tool the destination paths
\* are pairwise distinct: no two generated files go to the same path.
C37_DistinctDestinations ==
  \A j, k \in 1..Len(files) : j # k => files[j].Path # files[k].Path
\* ------------------------------------------------------ the symlink manager
\* What os.Lstat finds at a link path: nothing (NoFile), a regular file, a
\* directory, or a symlink with its destination.
RegularFile == <<B("mine")>>
Directory == <<[k |-> "dir", t |-> "", s |-> ""]>>
Symlink(target) == <<[k |-> "symlink", t |-> target, s |-> ""]>>
\* info.Mode()&os.ModeSymlink != 0
IsSymlink(entry) == entry # NoFile /\ entry[1].k = "symlink"

\* the link paths of the tool's symlink configuration
LinkPaths == {MemoryPath("claude"), SubagentPath("claude", 1), McpPath("claude")}
\* what the paths hold before the manager is used
LinkEntries == {NoFile, RegularFile, Directory, Symlink("memory.md"), Symlink("elsewhere")}
\* the entries of mindful/out/subagents, and whether an MCP link is configured
SymlinkSetups ==
  [entries : {<<>>, <<"reviewer.md">>, <<"reviewer.md", "reviewer.mdc">>},
   mcp : BOOLEAN]

\* planner.planSingle with evaluateExistingLink: the link is valid when it
\* is a symlink whose destination is the target
planSingle(f, linkAbs, targetAbs) ==
  [linkAbs |-> linkAbs, targetAbs |-> targetAbs, IsValid |-> f[linkAbs] = Symlink(targetAbs)]

RECURSIVE planSubagents(_, _)
planSubagents(f, entries) ==
  IF entries = <<>> THEN <<>>
  ELSE <<planSingle(f, SubagentPath("claude", 1), Head(entries))>>
         \o planSubagents(f, Tail(entries))

\* planner.buildPlans: memory, subagents, MCP
buildPlans(f, setup) ==
  <<planSingle(f, MemoryPath("claude"), "memory.md")>>
    \o planSubagents(f, setup.entries)
    \o (IF setup.mcp THEN <<planSingle(f, McpPath("claude"), "mcp.json")>> ELSE <<>>)

\* Manager.clearExistingPath: a symlink is removed, anything else is refused
clearExistingPath(f, linkPath) ==
  IF f[linkPath] = NoFile THEN [fs |-> f, err |-> FALSE]
  ELSE IF IsSymlink(f[linkPath]) THEN [fs |-> [f EXCEPT ![linkPath] = NoFile], err |-> FALSE]
  ELSE [fs |-> f, err |-> TRUE]

\* Manager.ensureSymlink: the file systems it can leave, with the error;
\* os.Symlink either creates the link or fails
ensureSymlink(f, plan) ==
  IF plan.IsValid THEN {[fs |-> f, err |-> FALSE]}
  ELSE IF f[plan.linkAbs] # NoFile /\ ~IsSymlink(f[plan.linkAbs])
       THEN {[fs |-> f, err |-> TRUE]}
       ELSE LET c == clearExistingPath(f, plan.linkAbs) IN
            IF c.err THEN {c}
            ELSE {[fs |-> [c.fs EXCEPT ![plan.linkAbs] = Symlink(plan.targetAbs)], err |-> FALSE],
                  [fs |-> c.fs, err |-> TRUE]}

\* variant: whatever is at the link path is removed
removeSymlinkAny(f, plan) == [f EXCEPT ![plan.linkAbs] = NoFile]

\* Manager.removeSymlink: only a symlink is removed
removeSymlink(f, plan) ==
  IF f[plan.linkAbs] = NoFile THEN f
  ELSE IF ~IsSymlink(f[plan.linkAbs]) THEN f
  ELSE [f EXCEPT ![plan.linkAbs] = NoFile]

SymlinkInit ==
  /\ source \in SymlinkSetups
  /\ tools = <<"claude">>
  /\ dryRun = FALSE
  /\ forceFlag = FALSE
  /\ force = FALSE
  /\ fs \in [LinkPaths -> LinkEntries]
  /\ pc = "plan"
  /\ ti = 1
  /\ cfgForce = FALSE
  /\ conflicts = <<>>
  /\ files = <<>>
  /\ fi = 1
  /\ result = NewApplyResult
  /\ stdinClosed = FALSE
  /\ run = 1
  /\ fs0 = fs
  /\ hist = <<>>
  /\ past = [written |-> {}, stopped |-> FALSE]

\* Manager.plan at the start of CreateSymlinks or CleanupSymlinks; files
\* holds the plans and fi the position of the loop over them
PlanLinks ==
  /\ pc = "plan"
  /\ run <= MaxRuns
  /\ files' = buildPlans(fs, source)
  /\ fi' = 1
  /\ pc' \in {"create", "cleanup"}
  /\ UNCHANGED <<source, tools, dryRun, forceFlag, force, fs, ti, cfgForce, conflicts,
                 result, stdinClosed, run, fs0, hist, past>>

\* one iteration of the loop of CreateSymlinks
CreateSymlinks ==
  /\ pc = "create"
  /\ fi <= Len(files)
  /\ \E o \in ensureSymlink(fs, files[fi]) :
       /\ fs' = o.fs
       /\ hist' = IF o.err THEN Append(hist, [e |-> "ensure", path |-> files[fi].linkAbs])
                  ELSE hist
  /\ fi' = fi + 1
  /\ UNCHANGED <<source, tools, dryRun, forceFlag, force, pc, ti, cfgForce, conflicts,
                 files, result, stdinClosed, run, fs0, past>>

\* one iteration of the loop of CleanupSymlinks
CleanupSymlinks ==
  /\ pc = "cleanup"
  /\ fi <= Len(files)
  /\ fs' = removeSymlink(fs, files[fi])
  /\ fi' = fi + 1
  /\ UNCHANGED <<source, tools, dryRun, forceFlag, force, pc, ti, cfgForce, conflicts,
                 files, result, stdinClosed, run, fs0, hist, past>>

\* the loop is over and the errors are returned joined
ReturnLinks ==
  /\ pc \in {"create", "cleanup"}
  /\ fi > Len(files)
  /\ pc' = "plan"
  /\ run' = run + 1
  /\ UNCHANGED <<source, tools, dryRun, forceFlag, force, fs, ti, cfgForce, conflicts,
                 files, fi, result, stdinClosed, fs0, hist, past>>

SymlinkNext ==
  \/ PlanLinks
  \/ CreateSymlinks
  \/ CleanupSymlinks
  \/ ReturnLinks

SymlinkSpec == SymlinkInit /\ [][SymlinkNext]_vars

\* C38: creation and cleanup of symlinks never overwrite, replace or delete
\* a path that is not a symlink: a regular file or a directory at a planned
\* link path is there unchanged after CreateSymlinks and CleanupSymlinks.
C38_NonSymlinksKept ==
  \A p \in LinkPaths :
    (fs0[p] # NoFile /\ ~IsSymlink(fs0[p])) => fs[p] = fs0[p]

\* two calls have returned: creation was refused at a path that holds a
\* regular file, and a symlink at another planned path was removed or replaced
C38_Witness ==
  /\ pc = "plan"
  /\ run > 2
  /\ \E p, q \in LinkPaths :
       /\ fs0[p] = RegularFile
       /\ fs[p] = RegularFile
       /\ \E i \in 1..Len(hist) : hist[i].e = "ensure" /\ hist[i].path = p
       /\ IsSymlink(fs0[q])
       /\ fs[q] # fs0[q]
\* C39: in every FileConflict the digest of the existing content differs
\* from the digest of the new content.
C39_DigestsDiffer ==
  \A i \in 1..Len(conflicts) : conflicts[i].ExistingHash # conflicts[i].NewHash
====
